---- MODULE Spec2Model ----
(***************************************************************************)
(* Sticker bot (src/bot.py): the per-request pipeline handle_media, the    *)
(* collection provisioning get_or_create_set, the appender add_to_set and  *)
(* the transcoder wrapper video_to_sticker_webm, run as concurrent         *)
(* coroutines of one asyncio event loop against the platform's registry    *)
(* of sticker sets.                                                        *)
(*                                                                         *)
(* Text values are sequences of one-character strings, so that             *)
(* sanitize_username and the f-string building set_name are computed       *)
(* character by character.                                                 *)
(***************************************************************************)
EXTENDS Integers, Sequences, FiniteSets, TLC

\* ---------------------------------------------------------------- bounds
NumUsers == 2
NumReqs == 2
MaxRenames == 1
MaxFaults == 1

Users == 1..NumUsers
Reqs == 1..NumReqs

\* ------------------------------------------------------------------ text
UpperChars == <<"A","B","C","D","E","F","G","H","I","J","K","L","M",
                "N","O","P","Q","R","S","T","U","V","W","X","Y","Z">>
LowerChars == <<"a","b","c","d","e","f","g","h","i","j","k","l","m",
                "n","o","p","q","r","s","t","u","v","w","x","y","z">>
DigitChars == <<"0","1","2","3","4","5","6","7","8","9">>

Range(s) == {s[i] : i \in DOMAIN s}

\* the character class [a-zA-Z0-9_] of the regular expression
WordChars == Range(UpperChars) \cup Range(LowerChars) \cup Range(DigitChars) \cup {"_"}

\* str.lower() on one character
LowerChar(c) ==
    IF c \in Range(UpperChars)
    THEN LowerChars[CHOOSE i \in DOMAIN UpperChars : UpperChars[i] = c]
    ELSE c

\* str(n) for n >= 0
RECURSIVE IntToStr(_)
IntToStr(n) ==
    IF n < Len(DigitChars) THEN <<DigitChars[n + 1]>>
    ELSE IntToStr(n \div Len(DigitChars)) \o <<DigitChars[(n % Len(DigitChars)) + 1]>>

\* the default tag (one character; the source's is an emoji)
DEFAULT_EMOJI == <<"#">>
STATIC_SUFFIX == <<"_","s","t","a","t","i","c">>
VIDEO_SUFFIX == <<"_","v","i","d","e","o">>
UserPrefix == <<"u","s","e","r">>
ByInfix == <<"_","b","y","_">>

\* variant of sanitize_username: the case of letters is kept
sanitize_username_NoLower(username, user_id) ==
    IF username = <<>> THEN UserPrefix \o IntToStr(user_id)
    ELSE [i \in DOMAIN username |->
            IF username[i] \in WordChars THEN username[i] ELSE "_"]

\* sanitize_username
sanitize_username(username, user_id) ==
    IF username = <<>> THEN UserPrefix \o IntToStr(user_id)
    ELSE [i \in DOMAIN username |->
            LowerChar(IF username[i] \in WordChars THEN username[i] ELSE "_")]

\* the name of the bot account, as bot.get_me() reports it
BotUsername == <<"S","B">>

\* variant of SetNameFor: the kind leaves no trace in the name
SetNameFor_NoKind(username, user_id, kind, bot) ==
    sanitize_username(username, user_id) \o ByInfix \o bot

\* set_name of get_or_create_set, for a bot account named bot
SetNameFor(username, user_id, kind, bot) ==
    sanitize_username(username, user_id)
        \o (IF kind = "static" THEN STATIC_SUFFIX ELSE VIDEO_SUFFIX)
        \o ByInfix \o bot

\* set_name of get_or_create_set
SetName(username, user_id, kind) == SetNameFor(username, user_id, kind, BotUsername)

\* set_title of get_or_create_set
SetTitle(first_name, kind) ==
    (IF first_name # <<>> THEN first_name ELSE <<"U","s","e","r">>)
        \o <<"'","s"," ">>
        \o (IF kind = "static" THEN <<"S","t","a","t","i","c">>
                               ELSE <<"V","i","d","e","o">>)
        \o <<" ","S","t","i","c","k","e","r","s">>

\* the public handles a user may hold (<<>>: none)
NoHandle == <<>>
HandlePool == {NoHandle, <<"U","s","e","r","1">>}

\* the platform keeps handles unique, case-insensitively
HandlesUnique(h) ==
    \A u, v \in Users :
        (u # v /\ h[u] # NoHandle /\ h[v] # NoHandle)
            => [i \in DOMAIN h[u] |-> LowerChar(h[u][i])]
                 # [i \in DOMAIN h[v] |-> LowerChar(h[v][i])]

\* ----------------------------------------------------------------- state
VARIABLES
    rq,       \* rq[r]: the locals of the handle_media task of request r, and its history
    sets,     \* the platform's registry: set name -> [owner, fmt, stickers]
    handle,   \* handle[u]: the public handle user u holds now (the platform's)
    fs,       \* the temporary files and directories on disk: <<r, path>>
    renames,  \* how many handle changes have happened
    faults,   \* how many calls and local operations have failed so far
    calc      \* one application of a pure function: its arguments and its result

vars == <<rq, sets, handle, fs, renames, faults, calc>>

\* the platform calls and local stages of one request, in program order
CallOrder == <<"chat_action", "download", "convert", "get_me", "lookup", "create",
               "refetch", "delete", "add", "refetch2", "reply_sticker", "reply_text">>
CallNames == Range(CallOrder)

\* the orchestrator's stages, in order (spec 4.7)
StageOrder == <<"received", "classified", "converted", "ensured", "appended", "responded">>

\* program points at which the task runs synchronous code: the event loop
\* runs nothing else until the task reaches its next await
SyncPcs == {"classify", "image_convert", "ensure_ffmpeg", "tempdir", "write_in",
            "run_ffmpeg", "ffmpeg_wait", "read_out"}

\* program points inside the with-block of video_to_sticker_webm
TempPcs == {"write_in", "run_ffmpeg", "ffmpeg_wait", "read_out"}

\* a sticker of a set: who put it there, and whether it is the placeholder
NoFile == [by |-> 0, ph |-> FALSE]
Placeholder(r) == [by |-> r, ph |-> TRUE]
UserSticker(r) == [by |-> r, ph |-> FALSE]

\* the inbound updates the model draws from: an update without a message
\* (an edited message), or a message with one of the media kinds; suffix is
\* the suffix of the file path the platform reports for a video or document
Inputs ==
    { [has_message |-> FALSE, media |-> "none", suffix |-> <<>>],
      [has_message |-> TRUE, media |-> "none", suffix |-> <<>>],
      [has_message |-> TRUE, media |-> "photo", suffix |-> <<>>],
      [has_message |-> TRUE, media |-> "animation", suffix |-> <<>>] }

\* no pure function is being applied
NoCalc == [fn |-> "none"]

Idle ==
    [pc |-> "idle", user |-> 0, username |-> NoHandle, has_message |-> FALSE,
     media |-> "none", suffix |-> <<>>, ext |-> <<>>, kind |-> "none",
     set_name |-> <<>>, stset |-> <<>>, file_id |-> NoFile,
     stages |-> <<>>, calls |-> [c \in CallNames |-> 0],
     res |-> [c \in CallNames |-> "none"], err |-> "none", errKind |-> "none",
     swallowed |-> {}, failMsgs |-> 0, delivered |-> NoFile, before |-> {}]

Init ==
    /\ rq = [r \in Reqs |-> Idle]
    /\ sets = << >>
    /\ handle = [u \in Users |-> NoHandle]
    /\ fs = {}
    /\ renames = 0
    /\ faults = 0
    /\ calc = NoCalc

\* -------------------------------------------------------------- helpers
\* the call or stage c is entered once more
Issue(q, c) == [q EXCEPT !.calls[c] = @ + 1]

\* the orchestrator's stage s is completed
Stage(q, s) == [q EXCEPT !.stages = Append(@, s)]

\* variant of Raise: a failed conversion is dropped and the request goes on
Raise_ConvertIgnored(q, c, k) ==
    [q EXCEPT !.pc = IF c = "convert" THEN "get_me" ELSE "except",
              !.err = c, !.errKind = k, !.res[c] = k,
              !.stages = Append(@, "failed")]

\* an exception of kind k raised by call or stage c reaches the except
\* clause of handle_media
Raise(q, c, k) ==
    [q EXCEPT !.pc = "except", !.err = c, !.errKind = k, !.res[c] = k,
              !.stages = Append(@, "failed")]

\* an exception of call c is caught inside get_or_create_set and dropped
Swallow(q, c, k) == [q EXCEPT !.swallowed = @ \cup {c}, !.res[c] = k]

\* no other task is inside synchronous code
CanRun(r) == \A o \in Reqs \ {r} : rq[o].pc \notin SyncPcs

Step(r, q) == rq' = [rq EXCEPT ![r] = q]

\* the environment makes a call or a local operation fail (a network error,
\* an undecodable image, a missing binary, an I/O error), or does not
Fault == faults < MaxFaults /\ faults' = faults + 1
NoFault == faults' = faults

\* variant of ExitTemp: the directory is left on disk
ExitTemp_Leak(fsys, r) == fsys

\* the with-block of video_to_sticker_webm is left: the directory and all
\* it holds are removed
ExitTemp(fsys, r) == {p \in fsys : p[1] # r}

\* ------------------------------------------------------------ environment
\* a new update arrives and its handler task is created; effective_user is
\* a snapshot of the sender at that time
Receive(r) ==
    /\ rq[r].pc = "idle"
    /\ r > 1 => rq[r - 1].pc # "idle"
    /\ CanRun(r)
    /\ \E u \in Users, inp \in Inputs :
          Step(r, [Idle EXCEPT !.pc = "chat_action", !.user = u,
                               !.username = handle[u],
                               !.has_message = inp.has_message,
                               !.media = inp.media, !.suffix = inp.suffix,
                               !.stages = <<"received">>])
    /\ UNCHANGED <<sets, handle, fs, renames, faults, calc>>

\* a user changes public handle on the platform
ChangeHandle(u) ==
    /\ renames < MaxRenames
    /\ \A r \in Reqs : rq[r].pc \notin SyncPcs
    /\ \E h \in HandlePool :
          /\ h # handle[u]
          /\ HandlesUnique([handle EXCEPT ![u] = h])
          /\ handle' = [handle EXCEPT ![u] = h]
    /\ renames' = renames + 1
    /\ UNCHANGED <<rq, sets, fs, faults, calc>>

\* ----------------------------------------------------------- handle_media
SendChatAction(r) ==
    /\ rq[r].pc = "chat_action"
    /\ CanRun(r)
    /\ LET q == Issue(rq[r], "chat_action") IN
          \/ /\ NoFault
             /\ Step(r, [q EXCEPT !.pc = "download", !.res["chat_action"] = "ok"])
          \/ /\ Fault
             /\ Step(r, Raise(q, "chat_action", "platform"))
    /\ UNCHANGED <<sets, handle, fs, renames, calc>>

\* str.lower() on a text
Lower(t) == [i \in DOMAIN t |-> LowerChar(t[i])]

\* tg_download_to_bytes: the extension returned for a supported message
DownloadExt(media, suffix) ==
    CASE media = "photo" -> <<".","j","p","g">>
      [] media = "animation" -> <<".","g","i","f">>
      [] media = "video" ->
            IF Lower(suffix) # <<>> THEN Lower(suffix) ELSE <<".","m","p","4">>
      [] OTHER ->
            IF Lower(suffix) # <<>> THEN Lower(suffix) ELSE <<".","b","i","n">>

\* the extensions handle_media converts on the video path
MotionExts ==
    { <<".","g","i","f">>, <<".","m","p","4">>, <<".","m","o","v">>,
      <<".","m","k","v">>, <<".","w","e","b","m">>, <<".","a","v","i">> }

\* variant of KindOf: only the extension decides
KindOf_ExtOnly(ext, media) ==
    IF Lower(ext) \in MotionExts THEN "video" ELSE "static"

\* handle_media's choice of kind
KindOf(ext, media) ==
    IF Lower(ext) \in MotionExts \/ media = "video" \/ media = "animation"
    THEN "video" ELSE "static"

\* tg_download_to_bytes
Download(r) ==
    /\ rq[r].pc = "download"
    /\ CanRun(r)
    /\ LET q == Issue(rq[r], "download") IN
          \/ /\ ~rq[r].has_message
             /\ NoFault
             /\ Step(r, Raise(q, "download", "no_message"))
          \/ /\ rq[r].has_message
             /\ rq[r].media = "none"
             /\ NoFault
             /\ Step(r, Raise(q, "download", "unsupported"))
          \/ /\ rq[r].has_message
             /\ rq[r].media # "none"
             /\ NoFault
             /\ Step(r, [q EXCEPT !.pc = "classify", !.res["download"] = "ok",
                                  !.ext = DownloadExt(rq[r].media, rq[r].suffix)])
          \/ /\ rq[r].has_message
             /\ rq[r].media # "none"
             /\ Fault
             /\ Step(r, Raise(q, "download", "platform"))
    /\ UNCHANGED <<sets, handle, fs, renames, calc>>

\* handle_media, line 242: the conversion path is chosen
Classify(r) ==
    /\ rq[r].pc = "classify"
    /\ LET k == KindOf(rq[r].ext, rq[r].media) IN
          Step(r, Stage([rq[r] EXCEPT !.kind = k,
                                      !.pc = IF k = "video" THEN "ensure_ffmpeg"
                                             ELSE "image_convert"],
                        "classified"))
    /\ UNCHANGED <<sets, handle, fs, renames, faults, calc>>

\* image_to_sticker_webp: the image decodes and is encoded, or Image.open raises
ImageConvert(r) ==
    /\ rq[r].pc = "image_convert"
    /\ LET q == Issue(rq[r], "convert") IN
          \/ /\ NoFault
             /\ Step(r, Stage([q EXCEPT !.pc = "get_me", !.res["convert"] = "ok"],
                              "converted"))
          \/ /\ Fault
             /\ Step(r, Raise(q, "convert", "decode"))
    /\ UNCHANGED <<sets, handle, fs, renames, calc>>

\* video_to_sticker_webm, ensure_ffmpeg: shutil.which finds the binary or not
EnsureFfmpeg(r) ==
    /\ rq[r].pc = "ensure_ffmpeg"
    /\ LET q == Issue(rq[r], "convert") IN
          \/ /\ NoFault
             /\ Step(r, [q EXCEPT !.pc = "tempdir"])
          \/ /\ Fault
             /\ Step(r, Raise(q, "convert", "ffmpeg_not_found"))
    /\ UNCHANGED <<sets, handle, fs, renames, calc>>

\* video_to_sticker_webm: the with-block is entered, the directory exists
TempDir(r) ==
    /\ rq[r].pc = "tempdir"
    /\ fs' = fs \cup {<<r, "td">>}
    /\ Step(r, [rq[r] EXCEPT !.pc = "write_in"])
    /\ UNCHANGED <<sets, handle, renames, faults, calc>>

\* video_to_sticker_webm: in_path.write_bytes writes the input, or raises
WriteIn(r) ==
    /\ rq[r].pc = "write_in"
    /\ \/ /\ NoFault
          /\ fs' = fs \cup {<<r, "in.bin">>}
          /\ Step(r, [rq[r] EXCEPT !.pc = "run_ffmpeg"])
       \/ /\ Fault
          /\ fs' = ExitTemp(fs, r)
          /\ Step(r, Raise(rq[r], "convert", "io"))
    /\ UNCHANGED <<sets, handle, renames, calc>>

\* video_to_sticker_webm: subprocess.run returns with an exit code, having
\* written the output file or not, and the result is checked; or it raises
RunFfmpeg(r) ==
    /\ rq[r].pc = "run_ffmpeg"
    /\ \/ /\ NoFault
          /\ fs' = fs \cup {<<r, "out.webm">>}
          /\ Step(r, [rq[r] EXCEPT !.pc = "read_out"])
       \/ /\ Fault
          /\ \E returncode \in {0, 1}, wrote \in BOOLEAN :
                LET disk == IF wrote THEN fs \cup {<<r, "out.webm">>} ELSE fs IN
                /\ returncode # 0 \/ <<r, "out.webm">> \notin disk
                /\ fs' = ExitTemp(disk, r)
                /\ Step(r, Raise(rq[r], "convert", "ffmpeg_failed"))
       \/ /\ Fault
          /\ fs' = ExitTemp(fs, r)
          /\ Step(r, Raise(rq[r], "convert", "io"))
    /\ UNCHANGED <<sets, handle, renames, calc>>

\* video_to_sticker_webm: subprocess.run is given no timeout; the transcoder
\* process does not exit and the call never returns
FfmpegHangs(r) ==
    /\ rq[r].pc = "run_ffmpeg"
    /\ Fault
    /\ Step(r, [rq[r] EXCEPT !.pc = "ffmpeg_wait"])
    /\ UNCHANGED <<sets, handle, fs, renames, calc>>

\* video_to_sticker_webm: out_path.read_bytes returns the asset, or raises
ReadOut(r) ==
    /\ rq[r].pc = "read_out"
    /\ fs' = ExitTemp(fs, r)
    /\ \/ /\ NoFault
          /\ Step(r, Stage([rq[r] EXCEPT !.pc = "get_me", !.res["convert"] = "ok"],
                           "converted"))
       \/ /\ Fault
          /\ Step(r, Raise(rq[r], "convert", "io"))
    /\ UNCHANGED <<sets, handle, renames, calc>>

\* ------------------------------------------------------ get_or_create_set
\* the tasks whose get_or_create_set call has returned
Ensured == {o \in Reqs : \E i \in DOMAIN rq[o].stages : rq[o].stages[i] = "ensured"}

\* variant of FirstSticker: the newest sticker is taken for the placeholder
FirstSticker_Newest(stickers) == stickers[Len(stickers)]

\* stset.stickers[0], the sticker get_or_create_set deletes
FirstSticker(stickers) == stickers[1]

\* stset.stickers[-1], the sticker whose file_id add_to_set returns
LastSticker(stickers) == stickers[Len(stickers)]

\* get_or_create_set returns (set_name, set_title) to handle_media
EnsureReturn(q) == Stage([q EXCEPT !.pc = "add"], "ensured")

\* the platform's registry with set name bound to value
WithSet(reg, name, value) ==
    [n \in DOMAIN reg \cup {name} |-> IF n = name THEN value ELSE reg[n]]

\* variant of WithoutSticker: the set that holds file_id is emptied
WithoutSticker_Whole(reg, file_id) ==
    [n \in DOMAIN reg |->
        [reg[n] EXCEPT !.stickers =
            IF \E i \in DOMAIN @ : @[i] = file_id THEN <<>> ELSE @]]

\* the platform's registry without the sticker file_id
WithoutSticker(reg, file_id) ==
    [n \in DOMAIN reg |->
        [reg[n] EXCEPT !.stickers = SelectSeq(@, LAMBDA st : st # file_id)]]

\* bot.get_me(), then the name is built from the update's snapshot of the user
GetMe(r) ==
    /\ rq[r].pc = "get_me"
    /\ CanRun(r)
    /\ LET q == Issue(rq[r], "get_me") IN
          \/ /\ NoFault
             /\ Step(r, [q EXCEPT !.pc = "lookup", !.res["get_me"] = "ok",
                                  !.before = Ensured,
                                  !.set_name = SetName(rq[r].username, rq[r].user,
                                                       rq[r].kind)])
          \/ /\ Fault
             /\ Step(r, Raise(q, "get_me", "platform"))
    /\ UNCHANGED <<sets, handle, fs, renames, calc>>

\* bot.get_sticker_set inside try/except Exception: pass
Lookup(r) ==
    /\ rq[r].pc = "lookup"
    /\ CanRun(r)
    /\ LET q == Issue(rq[r], "lookup") IN
          \/ /\ rq[r].set_name \in DOMAIN sets
             /\ NoFault
             /\ Step(r, EnsureReturn([q EXCEPT !.res["lookup"] = "found"]))
          \/ /\ rq[r].set_name \notin DOMAIN sets
             /\ NoFault
             /\ Step(r, [q EXCEPT !.pc = "create", !.res["lookup"] = "not_found"])
          \/ /\ Fault
             /\ Step(r, [Swallow(q, "lookup", "transient") EXCEPT !.pc = "create"])
    /\ UNCHANGED <<sets, handle, fs, renames, calc>>

\* bot.create_new_sticker_set with the placeholder; the platform refuses a
\* name that is taken
Create(r) ==
    /\ rq[r].pc = "create"
    /\ CanRun(r)
    /\ LET q == Issue(rq[r], "create") IN
          \/ /\ rq[r].set_name \notin DOMAIN sets
             /\ NoFault
             /\ sets' = WithSet(sets, rq[r].set_name,
                                [owner |-> rq[r].user, fmt |-> rq[r].kind,
                                 stickers |-> <<Placeholder(r)>>])
             /\ Step(r, [q EXCEPT !.pc = "refetch", !.res["create"] = "ok"])
          \/ /\ rq[r].set_name \in DOMAIN sets
             /\ NoFault
             /\ sets' = sets
             /\ Step(r, Raise(q, "create", "name_taken"))
          \/ /\ Fault
             /\ sets' = sets
             /\ Step(r, Raise(q, "create", "platform"))
    /\ UNCHANGED <<handle, fs, renames, calc>>

\* bot.get_sticker_set after the creation, inside try/except
Refetch(r) ==
    /\ rq[r].pc = "refetch"
    /\ CanRun(r)
    /\ LET q == Issue(rq[r], "refetch") IN
          \/ /\ NoFault
             /\ LET stickers == sets[rq[r].set_name].stickers
                    q2 == [q EXCEPT !.stset = stickers, !.res["refetch"] = "ok"] IN
                Step(r, IF stickers # <<>> THEN [q2 EXCEPT !.pc = "delete"]
                        ELSE EnsureReturn(q2))
          \/ /\ Fault
             /\ Step(r, EnsureReturn(Swallow(q, "refetch", "platform")))
    /\ UNCHANGED <<sets, handle, fs, renames, calc>>

\* bot.delete_sticker_from_set(stset.stickers[0].file_id), inside try/except
DeletePlaceholder(r) ==
    /\ rq[r].pc = "delete"
    /\ CanRun(r)
    /\ LET q == Issue(rq[r], "delete") IN
          \/ /\ NoFault
             /\ sets' = WithoutSticker(sets, FirstSticker(rq[r].stset))
             /\ Step(r, EnsureReturn([q EXCEPT !.res["delete"] = "ok"]))
          \/ /\ Fault
             /\ sets' = sets
             /\ Step(r, EnsureReturn(Swallow(q, "delete", "platform")))
    /\ UNCHANGED <<handle, fs, renames, calc>>

\* -------------------------------------------------------------- add_to_set
\* bot.add_sticker_to_set: the platform appends the sticker to the set
AddSticker(r) ==
    /\ rq[r].pc = "add"
    /\ CanRun(r)
    /\ LET q == Issue(rq[r], "add") IN
          \/ /\ NoFault
             /\ IF rq[r].set_name \in DOMAIN sets
                THEN /\ sets' = [sets EXCEPT ![rq[r].set_name].stickers =
                                                Append(@, UserSticker(r))]
                     /\ Step(r, [q EXCEPT !.pc = "refetch2", !.res["add"] = "ok"])
                ELSE /\ sets' = sets
                     /\ Step(r, Raise(q, "add", "platform"))
          \/ /\ Fault
             /\ sets' = sets
             /\ Step(r, Raise(q, "add", "platform"))
    /\ UNCHANGED <<handle, fs, renames, calc>>

\* bot.get_sticker_set, then stset.stickers[-1].file_id is returned
AddRefetch(r) ==
    /\ rq[r].pc = "refetch2"
    /\ CanRun(r)
    /\ LET q == Issue(rq[r], "refetch2") IN
          \/ /\ NoFault
             /\ LET stickers == sets[rq[r].set_name].stickers IN
                Step(r, IF stickers # <<>>
                        THEN Stage([q EXCEPT !.pc = "reply_sticker",
                                             !.res["refetch2"] = "ok",
                                             !.file_id = LastSticker(stickers)],
                                   "appended")
                        ELSE Raise(q, "refetch2", "index"))
          \/ /\ Fault
             /\ Step(r, Raise(q, "refetch2", "platform"))
    /\ UNCHANGED <<sets, handle, fs, renames, calc>>

\* ------------------------------------------------- handle_media, the replies
ReplySticker(r) ==
    /\ rq[r].pc = "reply_sticker"
    /\ CanRun(r)
    /\ LET q == Issue(rq[r], "reply_sticker") IN
          \/ /\ NoFault
             /\ Step(r, [q EXCEPT !.pc = "reply_text", !.res["reply_sticker"] = "ok",
                                  !.delivered = rq[r].file_id])
          \/ /\ Fault
             /\ Step(r, Raise(q, "reply_sticker", "platform"))
    /\ UNCHANGED <<sets, handle, fs, renames, calc>>

ReplyText(r) ==
    /\ rq[r].pc = "reply_text"
    /\ CanRun(r)
    /\ LET q == Issue(rq[r], "reply_text") IN
          \/ /\ NoFault
             /\ Step(r, Stage([q EXCEPT !.pc = "done", !.res["reply_text"] = "ok"],
                              "responded"))
          \/ /\ Fault
             /\ Step(r, Raise(q, "reply_text", "platform"))
    /\ UNCHANGED <<sets, handle, fs, renames, calc>>

\* the except clause of handle_media: the failure is logged and
\* update.message.reply_text sends the failure message; with no message the
\* attribute access raises, and a failing send raises, out of handle_media
Except(r) ==
    /\ rq[r].pc = "except"
    /\ CanRun(r)
    /\ \/ /\ ~rq[r].has_message
          /\ NoFault
          /\ Step(r, [rq[r] EXCEPT !.pc = "escaped"])
       \/ /\ rq[r].has_message
          /\ NoFault
          /\ Step(r, [rq[r] EXCEPT !.pc = "failed", !.failMsgs = @ + 1])
       \/ /\ rq[r].has_message
          /\ Fault
          /\ Step(r, [rq[r] EXCEPT !.pc = "escaped"])
    /\ UNCHANGED <<sets, handle, fs, renames, calc>>

Next ==
    \/ \E r \in Reqs : Receive(r)
    \/ \E u \in Users : ChangeHandle(u)
    \/ \E r \in Reqs : SendChatAction(r)
    \/ \E r \in Reqs : Download(r)
    \/ \E r \in Reqs : Classify(r)
    \/ \E r \in Reqs : ImageConvert(r)
    \/ \E r \in Reqs : EnsureFfmpeg(r)
    \/ \E r \in Reqs : TempDir(r)
    \/ \E r \in Reqs : WriteIn(r)
    \/ \E r \in Reqs : RunFfmpeg(r)
    \/ \E r \in Reqs : FfmpegHangs(r)
    \/ \E r \in Reqs : ReadOut(r)
    \/ \E r \in Reqs : GetMe(r)
    \/ \E r \in Reqs : Lookup(r)
    \/ \E r \in Reqs : Create(r)
    \/ \E r \in Reqs : Refetch(r)
    \/ \E r \in Reqs : DeletePlaceholder(r)
    \/ \E r \in Reqs : AddSticker(r)
    \/ \E r \in Reqs : AddRefetch(r)
    \/ \E r \in Reqs : ReplySticker(r)
    \/ \E r \in Reqs : ReplyText(r)
    \/ \E r \in Reqs : Except(r)

Spec == Init /\ [][Next]_vars

\* ================================================================ claims
Failing(r) == rq[r].pc \in {"except", "failed", "escaped"}
SameOwnerKind(r1, r2) ==
    /\ rq[r1].kind # "none"
    /\ rq[r1].user = rq[r2].user
    /\ rq[r1].kind = rq[r2].kind
IsPrefix(s, t) == Len(s) <= Len(t) /\ \A i \in DOMAIN s : s[i] = t[i]
TempOf(r) == {p \in fs : p[1] = r}
PositionOf(c) == CHOOSE i \in DOMAIN CallOrder : CallOrder[i] = c

\* C1: when two requests of one owner and kind both see the set missing, at
\* most one create succeeds and the request whose create the platform
\* refused is not failed by that refusal: it goes on to append.
C1_LoserAbsorbed ==
    \A r1, r2 \in Reqs :
        (/\ r1 # r2
         /\ SameOwnerKind(r1, r2)
         /\ rq[r1].res["lookup"] = "not_found"
         /\ rq[r2].res["lookup"] = "not_found")
        => /\ ~(rq[r1].res["create"] = "ok" /\ rq[r2].res["create"] = "ok")
           /\ rq[r2].res["create"] = "name_taken" =>
                 (rq[r2].err # "create" /\ ~Failing(r2))

\* C2: of two get_or_create_set calls for one owner and kind, the second
\* made after the first returned, the second issues only the lookup (no
\* create, re-fetch or delete) and returns the name the first returned.
C2_EnsureIdempotent ==
    \A r1, r2 \in Reqs :
        (r1 \in rq[r2].before /\ SameOwnerKind(r1, r2))
        => /\ rq[r2].calls["create"] = 0
           /\ rq[r2].calls["refetch"] = 0
           /\ rq[r2].calls["delete"] = 0
           /\ r2 \in Ensured => rq[r2].set_name = rq[r1].set_name

\* C3: the registry never holds two sets of one owner and one kind.
C3_OneSetPerOwnerKind ==
    \A n1, n2 \in DOMAIN sets :
        (sets[n1].owner = sets[n2].owner /\ sets[n1].fmt = sets[n2].fmt) => n1 = n2

\* C4: two requests that differ in owner or in kind never resolve the same
\* set name, and no request appends to a set another user owns.
C4_NamePerOwnerKind ==
    /\ \A r1, r2 \in Reqs :
          (/\ rq[r1].set_name # <<>>
           /\ rq[r2].set_name # <<>>
           /\ (rq[r1].user # rq[r2].user \/ rq[r1].kind # rq[r2].kind))
          => rq[r1].set_name # rq[r2].set_name
    /\ \A r \in Reqs :
          rq[r].res["add"] = "ok" => sets[rq[r].set_name].owner = rq[r].user

\* C5: no failure leaves handle_media: a request that failed has sent
\* exactly one failure message, also when the update holds no message and
\* when sending the failure message fails.
C5_FailuresCaught ==
    \A r \in Reqs :
        /\ rq[r].pc # "escaped"
        /\ rq[r].pc = "failed" => rq[r].failMsgs = 1
        /\ rq[r].pc # "failed" => rq[r].failMsgs = 0

\* C6: the stages of a request are a prefix of received, classified,
\* converted, ensured, appended, responded, closed by failed when a stage
\* failed; every call and stage is entered at most once; after the failure
\* of a call or stage no later one is entered, so a failed conversion is
\* followed by no create, add or delete call.
C6_StagesLinear ==
    \A r \in Reqs :
        LET s == rq[r].stages IN
        /\ \/ IsPrefix(s, StageOrder)
           \/ /\ s # <<>>
              /\ s[Len(s)] = "failed"
              /\ IsPrefix(SubSeq(s, 1, Len(s) - 1), StageOrder)
        /\ \A c \in CallNames : rq[r].calls[c] <= 1
        /\ rq[r].err # "none" =>
              /\ s[Len(s)] = "failed"
              /\ \A j \in DOMAIN CallOrder :
                    j > PositionOf(rq[r].err) => rq[r].calls[CallOrder[j]] = 0

\* a request went through all six stages, and another failed in conversion
C6_Witness ==
    \E r1, r2 \in Reqs :
        /\ rq[r1].stages = StageOrder
        /\ rq[r2].err = "convert"
        /\ rq[r2].pc = "failed"

\* C7: a create call is issued only after a lookup that reported the set
\* missing; a lookup that failed otherwise fails the request at the lookup.
C7_CreateOnlyOnNotFound ==
    \A r \in Reqs :
        rq[r].res["lookup"] = "transient" =>
            (rq[r].calls["create"] = 0 /\ rq[r].err \in {"none", "lookup"})

\* C8: once a request's create call and its placeholder deletion both
\* succeeded, its set holds no placeholder; when get_or_create_set returns
\* and no other request has appended to the set, the set is empty.
C8_PlaceholderGone ==
    \A r \in Reqs :
        (rq[r].res["create"] = "ok" /\ rq[r].res["delete"] = "ok")
        => LET st == sets[rq[r].set_name].stickers IN
           /\ \A i \in DOMAIN st : ~st[i].ph
           /\ (/\ rq[r].pc = "add"
               /\ \A o \in Reqs \ {r} :
                     rq[o].set_name = rq[r].set_name => rq[o].calls["add"] = 0)
              => st = <<>>

\* get_or_create_set created the set, deleted the placeholder and returned
C8_Witness ==
    \E r \in Reqs :
        /\ rq[r].res["create"] = "ok"
        /\ rq[r].res["delete"] = "ok"
        /\ rq[r].pc = "add"
        /\ sets[rq[r].set_name].stickers = <<>>

\* C9: a failed re-fetch or placeholder deletion after a successful create
\* does not fail get_or_create_set and leaves the placeholder in the set,
\* and no other failure of a request is dropped without failing the request.
C9_OnlyCleanupSwallowed ==
    \A r \in Reqs :
        /\ (/\ rq[r].res["create"] = "ok"
            /\ "platform" \in {rq[r].res["refetch"], rq[r].res["delete"]})
           => /\ r \in Ensured
              /\ rq[r].err \notin {"refetch", "delete"}
              /\ \E i \in DOMAIN sets[rq[r].set_name].stickers :
                    sets[rq[r].set_name].stickers[i] = Placeholder(r)
        /\ rq[r].swallowed \subseteq {"refetch", "delete"}

\* C10: outside the with-block of video_to_sticker_webm no temporary file
\* or directory of the request is on disk, whichever way the block was
\* left; a request whose transcoder binary was not found has failed in
\* conversion and has nothing on disk.
C10_NoTempLeft ==
    \A r \in Reqs :
        /\ rq[r].pc \notin TempPcs => TempOf(r) = {}
        /\ rq[r].errKind = "ffmpeg_not_found" =>
              (rq[r].err = "convert" /\ Failing(r) /\ TempOf(r) = {})

\* the transcoder ran and failed, and the request's directory is gone
C10_Witness ==
    \E r \in Reqs :
        /\ rq[r].errKind = "ffmpeg_failed"
        /\ Failing(r)
        /\ TempOf(r) = {}

\* =========================================================== tag selection
\* the longest caption drawn
MaxCaptionLen == 11
\* handle_media: the longest caption taken for a tag
MaxTagLen == 10

CaptionChars == {" ", "a"}
Captions == UNION {[1..n -> CaptionChars] : n \in 0..MaxCaptionLen}

\* the characters str.strip() removes
IsSpace(c) == c \in {" ", "\t", "\n", "\r"}

\* str.strip()
RECURSIVE LStrip(_)
LStrip(t) == IF t # <<>> /\ IsSpace(Head(t)) THEN LStrip(Tail(t)) ELSE t
RECURSIVE RStrip(_)
RStrip(t) ==
    IF t # <<>> /\ IsSpace(t[Len(t)]) THEN RStrip(SubSeq(t, 1, Len(t) - 1)) ELSE t
Strip(t) == RStrip(LStrip(t))

\* variant of SelectEmoji: the caption is not stripped
SelectEmoji_NoStrip(caption) ==
    IF caption # <<>> /\ Len(caption) <= MaxTagLen THEN caption ELSE DEFAULT_EMOJI

\* handle_media, lines 239-240: caption and emoji
SelectEmoji(caption) ==
    LET stripped == Strip(caption) IN
    IF stripped # <<>> /\ Len(stripped) <= MaxTagLen THEN stripped ELSE DEFAULT_EMOJI

\* add_to_set: emoji or DEFAULT_EMOJI, the tag bound to the sticker
EmojiList(emoji) == IF emoji # <<>> THEN emoji ELSE DEFAULT_EMOJI

InitTag ==
    /\ rq = [r \in Reqs |-> Idle]
    /\ sets = << >>
    /\ handle = [u \in Users |-> NoHandle]
    /\ fs = {}
    /\ renames = 0
    /\ faults = 0
    /\ calc \in {[fn |-> "tag", caption |-> c, done |-> FALSE, emoji |-> <<>>,
                  tag |-> <<>>] : c \in Captions}

\* a caption goes through handle_media's choice and add_to_set's fallback
ApplyTag ==
    /\ calc.fn = "tag"
    /\ ~calc.done
    /\ calc' = [calc EXCEPT !.done = TRUE,
                            !.emoji = SelectEmoji(calc.caption),
                            !.tag = EmojiList(SelectEmoji(calc.caption))]
    /\ UNCHANGED <<rq, sets, handle, fs, renames, faults>>

NextTag == ApplyTag

SpecTag == InitTag /\ [][NextTag]_vars

\* C12 as stated: an empty caption or one longer than 10 characters gives
\* the default tag, and a caption of at most 10 characters is the tag,
\* character for character.
C12_TagVerbatim ==
    (calc.fn = "tag" /\ calc.done) =>
        IF calc.caption = <<>> \/ Len(calc.caption) > MaxTagLen
        THEN calc.tag = DEFAULT_EMOJI
        ELSE calc.tag = calc.caption

\* C12, amended: the caption is whitespace, a core that neither starts nor
\* ends with whitespace, and whitespace; an empty core or one longer than
\* 10 characters gives the default tag, any other core is the tag.
C12_TagStripped ==
    (calc.fn = "tag" /\ calc.done) =>
        LET c == calc.caption IN
        \E i \in 0..Len(c) : \E j \in i..Len(c) :
            /\ \A k \in 1..i : IsSpace(c[k])
            /\ \A k \in (j + 1)..Len(c) : IsSpace(c[k])
            /\ i < j => (~IsSpace(c[i + 1]) /\ ~IsSpace(c[j]))
            /\ calc.tag = IF i = j \/ j - i > MaxTagLen THEN DEFAULT_EMOJI
                          ELSE SubSeq(c, i + 1, j)

\* a padded caption whose core was taken for the tag
C12_Witness ==
    /\ calc.fn = "tag"
    /\ calc.done
    /\ calc.tag # DEFAULT_EMOJI
    /\ calc.tag # calc.caption
    /\ Len(calc.caption) > MaxTagLen

\* ========================================================= name resolution
\* the resolutions recorded
MaxResolves == 2

NamePool == {<<>>, <<"M","y",".","B","o","t","!">>, <<"a","_","9">>}
IdPool == {7, 42}
BotPool == {<<"S","t","i","c","k","B","o","t">>, <<"S","B">>}
FirstNames == {<<>>, <<"A","l">>}
Kinds == {"static", "video"}

InitName ==
    /\ rq = [r \in Reqs |-> Idle]
    /\ sets = << >>
    /\ handle = [u \in Users |-> NoHandle]
    /\ fs = {}
    /\ renames = 0
    /\ faults = 0
    /\ calc \in {[fn |-> "name", username |-> h, user_id |-> i, first_name |-> f,
                  bot |-> b, log |-> <<>>] :
                    h \in NamePool, i \in IdPool, f \in FirstNames, b \in BotPool}

\* get_or_create_set, lines 148-155, for a request of the owner as the
\* platform describes them now
NameResolve(kind) ==
    /\ calc.fn = "name"
    /\ Len(calc.log) < MaxResolves
    /\ calc' = [calc EXCEPT !.log = Append(@,
                    [username |-> calc.username, user_id |-> calc.user_id,
                     bot |-> calc.bot, kind |-> kind,
                     first_name |-> calc.first_name,
                     set_name |-> SetNameFor(calc.username, calc.user_id, kind, calc.bot),
                     set_title |-> SetTitle(calc.first_name, kind)])]
    /\ UNCHANGED <<rq, sets, handle, fs, renames, faults>>

\* the owner edits the display name that update.effective_user carries
EditFirstName(f) ==
    /\ calc.fn = "name"
    /\ f # calc.first_name
    /\ calc' = [calc EXCEPT !.first_name = f]
    /\ UNCHANGED <<rq, sets, handle, fs, renames, faults>>

\* the owner edits the public handle that update.effective_user carries
EditUsername(h) ==
    /\ calc.fn = "name"
    /\ h # calc.username
    /\ calc' = [calc EXCEPT !.username = h]
    /\ UNCHANGED <<rq, sets, handle, fs, renames, faults>>

NextName ==
    \/ \E k \in Kinds : NameResolve(k)
    \/ \E f \in FirstNames : EditFirstName(f)
    \/ \E h \in NamePool : EditUsername(h)

SpecName == InitName /\ [][NextName]_vars

\* the resolutions recorded so far
Resolved == IF calc.fn = "name" THEN Range(calc.log) ELSE {}

\* the value of a string of decimal digits
RECURSIVE DecValue(_)
DecValue(d) ==
    IF d = <<>> THEN 0
    ELSE DecValue(SubSeq(d, 1, Len(d) - 1)) * 10
            + ((CHOOSE i \in DOMAIN DigitChars : DigitChars[i] = d[Len(d)]) - 1)

\* token is what the claim says of the handle h and the owner id
IsToken(token, h, id) ==
    IF h = <<>>
    THEN /\ Len(token) > Len(UserPrefix)
         /\ SubSeq(token, 1, Len(UserPrefix)) = <<"u","s","e","r">>
         /\ LET d == SubSeq(token, Len(UserPrefix) + 1, Len(token)) IN
            /\ \A i \in DOMAIN d : d[i] \in Range(DigitChars)
            /\ d[1] # "0" \/ Len(d) = 1
            /\ DecValue(d) = id
    ELSE /\ Len(token) = Len(h)
         /\ \A i \in DOMAIN h :
              \/ h[i] \in Range(LowerChars) \cup Range(DigitChars) \cup {"_"}
                    /\ token[i] = h[i]
              \/ \E j \in DOMAIN UpperChars : h[i] = UpperChars[j] /\ token[i] = LowerChars[j]
              \/ h[i] \notin WordChars /\ token[i] = "_"

\* C13: the collection name is token + suffix + "_by_" + botHandle, token
\* being the lower-cased handle with every character outside [A-Za-z0-9_]
\* replaced by "_", or "user<ownerId>" without a handle; "My.Bot!", static,
\* "StickBot" gives "my_bot__static_by_StickBot".
C13_NameDerivation ==
    \A e \in Resolved :
        /\ \E n \in 1..Len(e.set_name) :
              /\ IsToken(SubSeq(e.set_name, 1, n), e.username, e.user_id)
              /\ SubSeq(e.set_name, n + 1, Len(e.set_name)) =
                    (IF e.kind = "static" THEN <<"_","s","t","a","t","i","c">>
                                          ELSE <<"_","v","i","d","e","o">>)
                    \o <<"_","b","y","_">> \o e.bot
        /\ ( /\ e.username = <<"M","y",".","B","o","t","!">>
             /\ e.kind = "static"
             /\ e.bot = <<"S","t","i","c","k","B","o","t">> )
           => e.set_name = <<"m","y","_","b","o","t","_","_","s","t","a","t","i","c",
                             "_","b","y","_","S","t","i","c","k","B","o","t">>

\* the scenario's name was resolved, and so was the name of an owner
\* without a handle
C13_Witness ==
    /\ \E e \in Resolved :
          /\ e.username = <<"M","y",".","B","o","t","!">>
          /\ e.kind = "static"
          /\ e.bot = <<"S","t","i","c","k","B","o","t">>
    /\ \E e \in Resolved : e.username = <<>> /\ e.user_id = 42

SameFour(a, b) ==
    /\ a.username = b.username
    /\ a.user_id = b.user_id
    /\ a.bot = b.bot
    /\ a.kind = b.kind

\* C14 as stated: the same (ownerHandle, ownerId, botHandle, kind) always
\* yields the same (name, title), whatever else the state holds, and the
\* static and video names of one owner differ.
C14_NameTitleDeterministic ==
    \A a \in Resolved : \A b \in Resolved :
        /\ SameFour(a, b) => (a.set_name = b.set_name /\ a.set_title = b.set_title)
        /\ (a.user_id = b.user_id /\ a.kind # b.kind) => a.set_name # b.set_name

\* C14, amended: the same (ownerHandle, ownerId, botHandle, kind) always
\* yields the same name, and with the same display name of the owner the
\* same title; the static and video names of one owner differ.
C14_NameDeterministic ==
    \A a \in Resolved : \A b \in Resolved :
        /\ SameFour(a, b) => a.set_name = b.set_name
        /\ (SameFour(a, b) /\ a.first_name = b.first_name) => a.set_title = b.set_title
        /\ (a.user_id = b.user_id /\ a.kind # b.kind) => a.set_name # b.set_name

\* two resolutions for the same four inputs, the display name edited between
\* them
C14_Witness ==
    /\ calc.fn = "name"
    /\ Len(calc.log) = 2
    /\ SameFour(calc.log[1], calc.log[2])
    /\ calc.log[1].first_name # calc.log[2].first_name

\* ============================================================ dimensions
\* image_to_sticker_webp: the longest edge of a static sticker
MaxSide == 512
\* video_to_sticker_webm: the width the scale filter is given
MaxWidth == 512
\* the significand of a Python float (IEEE 754 binary64), in bits
MantBits == 53

Max(a, b) == IF a >= b THEN a ELSE b
Min(a, b) == IF a <= b THEN a ELSE b

\* binary digits of n, most significant first (none for 0)
RECURSIVE NatBits(_)
NatBits(n) == IF n = 0 THEN <<>> ELSE NatBits(n \div 2) \o <<n % 2>>

\* the number whose binary digits are b
RECURSIVE BitsNat(_)
BitsNat(b) ==
    IF b = <<>> THEN 0 ELSE 2 * BitsNat(SubSeq(b, 1, Len(b) - 1)) + b[Len(b)]

\* the first n binary digits of the fraction r / m, for r < m
RECURSIVE FracBits(_, _, _)
FracBits(r, m, n) ==
    IF n = 0 THEN <<>>
    ELSE LET b == IF 2 * r >= m THEN 1 ELSE 0 IN
         <<b>> \o FracBits(2 * r - b * m, m, n - 1)

\* what is left of r / m after its first n binary digits
RECURSIVE FracRem(_, _, _)
FracRem(r, m, n) == IF n = 0 THEN r ELSE FracRem((2 * r) % m, m, n - 1)

\* the zero digits that open the fraction r / m, for 0 < r < m
RECURSIVE LeadZeros(_, _)
LeadZeros(r, m) == IF 2 * r >= m THEN 0 ELSE 1 + LeadZeros(2 * r, m)

\* b + 1 on binary digits, one digit longer on overflow
RECURSIVE IncBits(_)
IncBits(b) ==
    IF b = <<>> THEN <<1>>
    ELSE IF b[Len(b)] = 0 THEN SubSeq(b, 1, Len(b) - 1) \o <<1>>
    ELSE IncBits(SubSeq(b, 1, Len(b) - 1)) \o <<0>>

\* round to nearest, ties to even: man are the MantBits leading digits of a
\* number man * 2^exp + (guard/2 + rest) * 2^exp; a float is man * 2^exp
RoundFloat(man, exp, guard, sticky) ==
    IF guard = 1 /\ (sticky \/ man[MantBits] = 1)
    THEN LET up == IncBits(man) IN
         IF Len(up) > MantBits
         THEN [man |-> SubSeq(up, 1, MantBits), exp |-> exp + 1]
         ELSE [man |-> up, exp |-> exp]
    ELSE [man |-> man, exp |-> exp]

\* float(a) / float(m), for integers a, m >= 1
FloatDiv(a, m) ==
    LET ib == NatBits(a \div m)
        r0 == a % m
        n == IF ib # <<>> THEN MantBits + 1 - Len(ib)
             ELSE LeadZeros(r0, m) + MantBits + 1
        all == ib \o FracBits(r0, m, n)
        sig == SubSeq(all, Len(all) - MantBits, Len(all))
    IN  RoundFloat(SubSeq(sig, 1, MantBits), 1 - n, sig[MantBits + 1],
                   FracRem(r0, m, n) # 0)

\* the binary digits b, least significant first, times k plus carry
RECURSIVE MulRev(_, _, _)
MulRev(b, k, carry) ==
    IF b = <<>> THEN (IF carry = 0 THEN <<>> ELSE <<carry % 2>> \o MulRev(b, k, carry \div 2))
    ELSE LET t == Head(b) * k + carry IN
         <<t % 2>> \o MulRev(Tail(b), k, t \div 2)

Reverse(b) == [i \in 1..Len(b) |-> b[Len(b) + 1 - i]]

\* float(k) * f, for an integer k >= 1
FloatMul(k, f) ==
    LET p == Reverse(MulRev(Reverse(f.man), k, 0))
        extra == Len(p) - MantBits
    IN  IF extra = 0 THEN f
        ELSE RoundFloat(SubSeq(p, 1, MantBits), f.exp + extra, p[MantBits + 1],
                        \E i \in (MantBits + 2)..Len(p) : p[i] = 1)

\* f < 1.0
FloatLessOne(f) == MantBits + f.exp <= 0

\* int(f), for f >= 0 with an integral part below 2^MantBits
FloatInt(f) ==
    IF MantBits + f.exp <= 0 THEN 0 ELSE BitsNat(SubSeq(f.man, 1, MantBits + f.exp))

\* image_to_sticker_webp: the size of the image saved; Image.resize refuses
\* a size with a zero in it
ImageSize(w, h) ==
    LET scale == FloatDiv(MaxSide, Max(w, h)) IN
    IF FloatLessOne(scale)
    THEN LET nw == FloatInt(FloatMul(w, scale))
             nh == FloatInt(FloatMul(h, scale))
         IN  [ok |-> nw > 0 /\ nh > 0, w |-> nw, h |-> nh]
    ELSE [ok |-> TRUE, w |-> w, h |-> h]

\* av_rescale of the scale filter: a * b / c rounded to the nearest integer
Rescale(a, b, c) == (2 * a * b + c) \div (2 * c)

\* video_to_sticker_webm: the frame size the filter
\* scale='min(512,iw)':-2:force_original_aspect_ratio=decrease gives a frame
\* of iw x ih: the width is min(512, iw), the height follows the aspect
\* ratio as a multiple of 2, and neither exceeds what the aspect ratio gives
\* the other
VideoSize(iw, ih) ==
    LET w0 == Min(MaxWidth, iw)
        h0 == Rescale(w0, ih, iw * 2) * 2
        tmp_w == Rescale(h0, iw, ih)
        tmp_h == Rescale(w0, ih, iw)
    IN  [w |-> Min(tmp_w, w0), h |-> Min(tmp_h, h0)]

ImageSides == {1, 300, 512, 513, 561, 1024, 2000}
VideoSides == {2, 51, 100, 512, 720, 1280}

InitScale ==
    /\ rq = [r \in Reqs |-> Idle]
    /\ sets = << >>
    /\ handle = [u \in Users |-> NoHandle]
    /\ fs = {}
    /\ renames = 0
    /\ faults = 0
    /\ calc \in {[fn |-> "image", w |-> w, h |-> h, done |-> FALSE,
                  out |-> [ok |-> FALSE, w |-> 0, h |-> 0]] :
                    w \in ImageSides, h \in ImageSides}
           \cup {[fn |-> "video", w |-> w, h |-> h, done |-> FALSE,
                  out |-> [w |-> 0, h |-> 0]] :
                    w \in VideoSides, h \in VideoSides}

\* image_to_sticker_webp on an image of calc.w x calc.h
ApplyImage ==
    /\ calc.fn = "image"
    /\ ~calc.done
    /\ calc' = [calc EXCEPT !.done = TRUE, !.out = ImageSize(calc.w, calc.h)]
    /\ UNCHANGED <<rq, sets, handle, fs, renames, faults>>

\* the transcoder of video_to_sticker_webm on frames of calc.w x calc.h
ApplyVideo ==
    /\ calc.fn = "video"
    /\ ~calc.done
    /\ calc' = [calc EXCEPT !.done = TRUE, !.out = VideoSize(calc.w, calc.h)]
    /\ UNCHANGED <<rq, sets, handle, fs, renames, faults>>

NextScale == ApplyImage \/ ApplyVideo

SpecScale == InitScale /\ [][NextScale]_vars

\* C15: a converted animated asset has its longer dimension at most 512,
\* its shorter dimension even and neither dimension above the input's,
\* whatever the input's width and height.
C15_VideoSize ==
    (calc.fn = "video" /\ calc.done) =>
        /\ Max(calc.out.w, calc.out.h) <= 512
        /\ Min(calc.out.w, calc.out.h) % 2 = 0
        /\ calc.out.w <= calc.w
        /\ calc.out.h <= calc.h

\* C16: an image with max(w, h) > 512 comes out with its longer edge exactly
\* 512 and its shorter edge within 1 pixel of the proportional value; an
\* image with max(w, h) <= 512 comes out with its own dimensions.
C16_StaticSize ==
    (calc.fn = "image" /\ calc.done /\ calc.out.ok) =>
        IF Max(calc.w, calc.h) > 512
        THEN /\ Max(calc.out.w, calc.out.h) = 512
             /\ LET short == IF calc.w >= calc.h THEN calc.out.h ELSE calc.out.w
                    d == short * Max(calc.w, calc.h) - Min(calc.w, calc.h) * 512
                IN  d <= Max(calc.w, calc.h) /\ -d <= Max(calc.w, calc.h)
        ELSE calc.out.w = calc.w /\ calc.out.h = calc.h

\* ======================================================== classification
MediaKinds == {"none", "photo", "animation", "video", "document"}
SuffixPool == { <<>>, <<".","p","n","g">>, <<".","G","I","F">>,
                <<".","w","e","b","m">> }

\* the updates a handler may be given: no message, or a message with one
\* kind of attachment whose file name ends in a suffix
AllInputs ==
    { [has_message |-> FALSE, media |-> "none", suffix |-> <<>>] }
    \cup { [has_message |-> TRUE, media |-> m, suffix |-> x] :
             m \in MediaKinds, x \in SuffixPool }

\* one update arrives, with any attachment
ReceiveAny ==
    /\ rq[1].pc = "idle"
    /\ \E u \in Users, inp \in AllInputs :
          Step(1, [Idle EXCEPT !.pc = "chat_action", !.user = u,
                               !.username = handle[u],
                               !.has_message = inp.has_message,
                               !.media = inp.media, !.suffix = inp.suffix,
                               !.stages = <<"received">>])
    /\ UNCHANGED <<sets, handle, fs, renames, faults, calc>>

NextClassify ==
    \/ ReceiveAny
    \/ \E r \in Reqs : SendChatAction(r)
    \/ \E r \in Reqs : Download(r)
    \/ \E r \in Reqs : Classify(r)
    \/ \E r \in Reqs : ImageConvert(r)
    \/ \E r \in Reqs : EnsureFfmpeg(r)
    \/ \E r \in Reqs : TempDir(r)
    \/ \E r \in Reqs : WriteIn(r)
    \/ \E r \in Reqs : RunFfmpeg(r)
    \/ \E r \in Reqs : FfmpegHangs(r)
    \/ \E r \in Reqs : ReadOut(r)
    \/ \E r \in Reqs : GetMe(r)
    \/ \E r \in Reqs : Lookup(r)
    \/ \E r \in Reqs : Create(r)
    \/ \E r \in Reqs : Refetch(r)
    \/ \E r \in Reqs : DeletePlaceholder(r)
    \/ \E r \in Reqs : AddSticker(r)
    \/ \E r \in Reqs : AddRefetch(r)
    \/ \E r \in Reqs : ReplySticker(r)
    \/ \E r \in Reqs : ReplyText(r)
    \/ \E r \in Reqs : Except(r)

SpecClassify == Init /\ [][NextClassify]_vars

\* the positions inside video_to_sticker_webm
VideoPcs == {"ensure_ffmpeg", "temp_dir", "write_in", "run_ffmpeg", "ffmpeg_wait",
             "read_out"}

\* the metadata marks video or animation, or the file's extension is, in
\* any case of letters, one of gif, mp4, mov, mkv, webm, avi
IsMotion(media, suffix) ==
    \/ media \in {"video", "animation"}
    \/ /\ media = "document"
       /\ Len(suffix) > 1
       /\ suffix[1] = "."
       /\ [i \in 1..(Len(suffix) - 1) |-> LowerChar(suffix[i + 1])] \in
             { <<"g","i","f">>, <<"m","p","4">>, <<"m","o","v">>, <<"m","k","v">>,
               <<"w","e","b","m">>, <<"a","v","i">> }

\* C17: a payload goes the animated path exactly when the metadata marks
\* video or animation or the extension is one of gif, mp4, mov, mkv, webm,
\* avi, and the static path otherwise; a message with none of photo,
\* animation, video, document fails as unsupported, nothing converted and
\* nothing changed on the platform.
C17_Classification ==
    \A r \in Reqs :
        /\ rq[r].kind # "none" =>
              (rq[r].kind = "video" <=> IsMotion(rq[r].media, rq[r].suffix))
        /\ rq[r].pc \in VideoPcs => rq[r].kind = "video"
        /\ rq[r].pc = "image_convert" => rq[r].kind = "static"
        /\ (rq[r].calls["convert"] > 0 \/ "converted" \in Range(rq[r].stages)) =>
              rq[r].kind # "none"
        /\ (rq[r].has_message /\ rq[r].media = "none") =>
              /\ rq[r].kind = "none"
              /\ rq[r].pc \in {"chat_action", "download", "except", "failed", "escaped"}
              /\ \A c \in {"convert", "create", "delete", "add"} : rq[r].calls[c] = 0
              /\ rq[r].pc \in {"failed", "escaped"} /\ rq[r].err = "download"
                    => rq[r].errKind = "unsupported"
              /\ sets = << >>
              /\ fs = {}

\* a document named *.GIF went the animated path and was converted
C17_Witness ==
    \E r \in Reqs :
        /\ rq[r].media = "document"
        /\ rq[r].suffix = <<".","G","I","F">>
        /\ rq[r].kind = "video"
        /\ "converted" \in Range(rq[r].stages)

\* a request that has started and has neither responded nor failed
Pending(r) == rq[r].pc \notin {"idle", "done", "failed", "escaped"}

\* C11: the wait on the transcoder is bounded: while a request is pending
\* the program can take a step, so a transcoder that never exits leaves no
\* request, nor the requests behind it, pending forever.
C11_WaitBounded ==
    (\E r \in Reqs : Pending(r)) => ENABLED Next

\* C18: the reference add_to_set returns, and the sticker sent back to the
\* user, is the asset this same call added, under every interleaving of
\* concurrent add_to_set calls on one collection.
C18_ReturnsOwnSticker ==
    \A r \in Reqs :
        /\ rq[r].file_id # NoFile => rq[r].file_id = UserSticker(r)
        /\ rq[r].delivered # NoFile => rq[r].delivered = UserSticker(r)

\* the user-submitted stickers of a set
UserStickers(reg, n) ==
    IF n \in DOMAIN reg THEN {st \in Range(reg[n].stickers) : ~st.ph} ELSE {}

\* C19: a delete call is issued only by the get_or_create_set call that
\* created the collection and targets that call's placeholder; every
\* sticker a request has added stays in its collection, and the number of
\* user-submitted stickers of a collection never decreases.
C19_OnlyPlaceholderDeleted ==
    /\ [](\A r \in Reqs :
            /\ rq[r].calls["delete"] > 0 =>
                  /\ rq[r].res["create"] = "ok"
                  /\ rq[r].stset[1] = Placeholder(r)
            /\ rq[r].res["add"] = "ok" =>
                  UserSticker(r) \in UserStickers(sets, rq[r].set_name))
    /\ [][\A n \in DOMAIN sets :
            /\ n \in DOMAIN sets'
            /\ UserStickers(sets, n) \subseteq UserStickers(sets', n)]_vars

\* a request deleted its placeholder after another request had appended to
\* the collection it created, and the other's sticker is in the collection
C19_Witness ==
    \E r \in Reqs :
        /\ rq[r].res["delete"] = "ok"
        /\ Len(rq[r].stset) > 1
        /\ \E o \in Reqs \ {r} :
              /\ rq[o].res["add"] = "ok"
              /\ rq[o].set_name = rq[r].set_name
              /\ sets[rq[r].set_name].stickers = <<UserSticker(o)>>

\* C20: a request never both delivers the sticker reply and sends the
\* failure message, and the failure message is sent only for a request
\* whose asset was not added to the collection.
C20_OutcomesExclusive ==
    \A r \in Reqs :
        /\ ~(rq[r].delivered # NoFile /\ rq[r].failMsgs > 0)
        /\ rq[r].failMsgs > 0 => rq[r].res["add"] # "ok"

====
